---- MODULE Spec2Model ----
(***************************************************************************)
(* Model of video-analyzer.js (the --rewrite capable version, lines        *)
(* 134-617): the command line pipeline main() and the pure helpers of      *)
(* class VideoAnalyzer.                                                    *)
(*                                                                         *)
(* JavaScript strings are modelled as sequences of one-character strings,  *)
(* so that startsWith, the <think> regular expression, trim, JSON.parse    *)
(* and JSON.stringify are computed character by character.  An element     *)
(* longer than one character abbreviates a run of letters and spaces of a  *)
(* fixed text (a message, a key, a placeholder) that no pattern of the     *)
(* program matches a part of; the Chinese texts of the source are given in *)
(* English.                                                                *)
(***************************************************************************)
EXTENDS Integers, Sequences, FiniteSets, TLC

VARIABLES
    argv,               \* process.argv
    env,                \* process.env, the entries main reads
    dirs,               \* file system: the directories that exist
    files,              \* file system: the files written, in order
    pc,                 \* where main is: the call it awaits, or "exited"
    exitCode,           \* the process's exit status
    stdout,             \* the lines main writes with console.log (the progress
                        \* lines of the VideoAnalyzer methods are left out)
    stderr,             \* the lines written by console.error
    calls,              \* the network requests issued, in order
    audioText,          \* main's audioText
    result,             \* main's result
    topicSummary,       \* suggestSimilarTopic's topicSummary
    topicSuggestion,    \* main's topicSuggestion (the raw suggestion)
    cleanedSuggestion,  \* main's cleanedSuggestion
    rewrittenContent,   \* main's rewrittenContent
    splitContent,       \* main's splitContent
    sanParts,   \* sanitizer harness: the structured input (text and span parts)
    sanStage,   \* sanitizer harness: how many times the sanitizer was applied
    sanOnce,    \* sanitizer harness: cleanPerplexityResponse(input)
    sanTwice    \* sanitizer harness: cleanPerplexityResponse(sanOnce)

mainVars ==
    <<argv, env, dirs, files, pc, exitCode, stdout, stderr, calls, audioText,
      result, topicSummary, topicSuggestion, cleanedSuggestion, rewrittenContent,
      splitContent>>

sanVars == <<sanParts, sanStage, sanOnce, sanTwice>>

vars == <<mainVars, sanVars>>

(***************************************************************************)
(* Bounds                                                                  *)
(***************************************************************************)
\* largest number of parts (text segments and <think> spans) of a response
MaxParts == 4

\* largest number of command line arguments after the script name
MaxArgs == 2

(***************************************************************************)
(* String helpers                                                          *)
(***************************************************************************)
SeqMin(S) == CHOOSE m \in S : \A n \in S : m <= n
SeqMax(S) == CHOOSE m \in S : \A n \in S : n <= m

\* pat occurs in s at (1-based) position i
MatchesAt(s, i, pat) ==
    /\ i >= 1
    /\ i + Len(pat) - 1 <= Len(s)
    /\ \A k \in 1..Len(pat) : s[i + k - 1] = pat[k]

\* String.prototype.indexOf(pat, from): first position >= from, 0 when absent
IndexOfFrom(s, pat, from) ==
    LET hits == {j \in from..Len(s) : MatchesAt(s, j, pat)}
    IN  IF hits = {} THEN 0 ELSE SeqMin(hits)

\* String.prototype.includes
Includes(s, pat) == IndexOfFrom(s, pat, 1) # 0

\* String.prototype.startsWith
StartsWith(s, pat) == MatchesAt(s, 1, pat)

\* the characters String.prototype.trim strips (those the model's inputs use)
WhiteSpace == {" ", "\n", "\t", "\r"}

\* String.prototype.trim
Trim(s) ==
    LET keep == {i \in 1..Len(s) : s[i] \notin WhiteSpace}
    IN  IF keep = {} THEN <<>> ELSE SubSeq(s, SeqMin(keep), SeqMax(keep))

(***************************************************************************)
(* cleanPerplexityResponse: response.replace(/<think>[\s\S]*?<\/think>/g,  *)
(* '').trim()                                                              *)
(***************************************************************************)
OpenTag  == <<"<", "t", "h", "i", "n", "k", ">">>
CloseTag == <<"<", "/", "t", "h", "i", "n", "k", ">">>

\* a greedy body ([\s\S]* instead of [\s\S]*?): the match runs to the LAST
\* closing tag
ThinkMatchEnd_Greedy(s, i) ==
    LET hits == {j \in (i + Len(OpenTag))..Len(s) : MatchesAt(s, j, CloseTag)}
    IN  IF MatchesAt(s, i, OpenTag) /\ hits # {}
        THEN SeqMax(hits) + Len(CloseTag)
        ELSE 0

\* the regular expression tried at position i: the position just after the
\* match (the lazy body stops at the FIRST closing tag), 0 when it fails
ThinkMatchEnd(s, i) ==
    LET close == IndexOfFrom(s, CloseTag, i + Len(OpenTag))
    IN  IF MatchesAt(s, i, OpenTag) /\ close # 0
        THEN close + Len(CloseTag)
        ELSE 0

\* replace(/.../g, ''): one left-to-right pass, each match dropped and the scan
\* resumed right after it; the text already produced is never rescanned
RECURSIVE ReplaceThinkFrom(_, _)
ReplaceThinkFrom(s, i) ==
    IF i > Len(s)
    THEN <<>>
    ELSE LET e == ThinkMatchEnd(s, i)
         IN  IF e # 0
             THEN ReplaceThinkFrom(s, e)
             ELSE <<s[i]>> \o ReplaceThinkFrom(s, i + 1)

cleanPerplexityResponse(response) == Trim(ReplaceThinkFrom(response, 1))

(***************************************************************************)
(* JavaScript values: strings, numbers, booleans, null, undefined, arrays  *)
(* and objects (an object is the ordered list of its members)              *)
(***************************************************************************)
JStr(s)  == [t |-> "str", s |-> s]
JNum(n)  == [t |-> "num", n |-> n]
JBool(b) == [t |-> "bool", b |-> b]
JArr(a)  == [t |-> "arr", a |-> a]
JObj(m)  == [t |-> "obj", m |-> m]
JNull    == [t |-> "null"]
JUndef   == [t |-> "undefined"]

Member(k, v) == [k |-> k, v |-> v]

\* ToBoolean: what `!x` and `x || y` test
Truthy(v) ==
    CASE v.t = "undefined" -> FALSE
      [] v.t = "null"      -> FALSE
      [] v.t = "str"       -> v.s # <<>>
      [] v.t = "num"       -> v.n # 0
      [] v.t = "bool"      -> v.b
      [] OTHER             -> TRUE

\* v.key would throw a TypeError
ThrowsOnRead(v) == v.t \in {"null", "undefined"}

\* v.key for the keys the program reads (none is a property of a string, a
\* number, a boolean or an array); a repeated key keeps its last value
Get(v, key) ==
    IF v.t # "obj"
    THEN JUndef
    ELSE LET hits == {i \in 1..Len(v.m) : v.m[i].k = key}
         IN  IF hits = {} THEN JUndef ELSE v.m[SeqMax(hits)].v

\* a || b
OrElse(a, b) == IF Truthy(a) THEN a ELSE b

Digits == <<"0", "1", "2", "3", "4", "5", "6", "7", "8", "9">>
DigitSet == {Digits[i] : i \in 1..Len(Digits)}
DigitValue(c) == (CHOOSE i \in 1..Len(Digits) : Digits[i] = c) - 1

RECURSIVE NumberText(_)
NumberText(n) ==
    IF n < Len(Digits)
    THEN <<Digits[n + 1]>>
    ELSE NumberText(n \div Len(Digits)) \o <<Digits[(n % Len(Digits)) + 1]>>

(***************************************************************************)
(* JSON.parse, over the JSON grammar without fractions, exponents, signs   *)
(* and \u escapes (the model's texts hold none of them)                    *)
(***************************************************************************)
ParseFail == [ok |-> FALSE, v |-> JUndef, i |-> 0]
ParseOk(v, i) == [ok |-> TRUE, v |-> v, i |-> i]

JsonWhiteSpace == {" ", "\n", "\t", "\r"}

RECURSIVE SkipWs(_, _)
SkipWs(s, i) ==
    IF i <= Len(s) /\ s[i] \in JsonWhiteSpace THEN SkipWs(s, i + 1) ELSE i

\* the character an escape \c stands for; <<>> when \c is no escape
Unescape(c) ==
    CASE c = "\"" -> <<"\"">>
      [] c = "\\" -> <<"\\">>
      [] c = "/"  -> <<"/">>
      [] c = "n"  -> <<"\n">>
      [] c = "t"  -> <<"\t">>
      [] c = "r"  -> <<"\r">>
      [] OTHER    -> <<>>

\* the characters of a string literal from position i (just after the opening
\* quote) to its closing quote; a raw control character is a syntax error
RECURSIVE ParseChars(_, _, _)
ParseChars(s, i, acc) ==
    IF i > Len(s)
    THEN ParseFail
    ELSE CASE s[i] = "\"" -> ParseOk(JStr(acc), i + 1)
           [] s[i] \in {"\n", "\t", "\r"} -> ParseFail
           [] s[i] = "\\" ->
                IF i + 1 > Len(s) \/ Unescape(s[i + 1]) = <<>>
                THEN ParseFail
                ELSE ParseChars(s, i + 2, acc \o Unescape(s[i + 1]))
           [] OTHER -> ParseChars(s, i + 1, Append(acc, s[i]))

ParseString(s, i) ==
    IF i <= Len(s) /\ s[i] = "\"" THEN ParseChars(s, i + 1, <<>>) ELSE ParseFail

RECURSIVE ParseDigits(_, _, _)
ParseDigits(s, i, n) ==
    IF i <= Len(s) /\ s[i] \in DigitSet
    THEN ParseDigits(s, i + 1, n * Len(Digits) + DigitValue(s[i]))
    ELSE ParseOk(JNum(n), i)

\* a number: 0, or a digit 1-9 followed by digits
ParseNumber(s, i) ==
    IF s[i] = "0" THEN ParseOk(JNum(0), i + 1) ELSE ParseDigits(s, i, 0)

LitNull  == <<"n", "u", "l", "l">>
LitTrue  == <<"t", "r", "u", "e">>
LitFalse == <<"f", "a", "l", "s", "e">>

ParseLiteral(s, i) ==
    CASE MatchesAt(s, i, LitNull)  -> ParseOk(JNull, i + Len(LitNull))
      [] MatchesAt(s, i, LitTrue)  -> ParseOk(JBool(TRUE), i + Len(LitTrue))
      [] MatchesAt(s, i, LitFalse) -> ParseOk(JBool(FALSE), i + Len(LitFalse))
      [] OTHER                     -> ParseFail

RECURSIVE ParseValue(_, _)
RECURSIVE ParseElements(_, _, _)
RECURSIVE ParseMembers(_, _, _)

ParseValue(s, from) ==
    LET i == SkipWs(s, from)
    IN  IF i > Len(s)
        THEN ParseFail
        ELSE CASE s[i] = "\"" -> ParseString(s, i)
               [] s[i] \in DigitSet -> ParseNumber(s, i)
               [] s[i] = "[" ->
                    LET j == SkipWs(s, i + 1)
                    IN  IF j <= Len(s) /\ s[j] = "]"
                        THEN ParseOk(JArr(<<>>), j + 1)
                        ELSE ParseElements(s, i + 1, <<>>)
               [] s[i] = "{" ->
                    LET j == SkipWs(s, i + 1)
                    IN  IF j <= Len(s) /\ s[j] = "}"
                        THEN ParseOk(JObj(<<>>), j + 1)
                        ELSE ParseMembers(s, i + 1, <<>>)
               [] OTHER -> ParseLiteral(s, i)

ParseElements(s, from, acc) ==
    LET r == ParseValue(s, from)
    IN  IF ~r.ok
        THEN ParseFail
        ELSE LET j == SkipWs(s, r.i)
             IN  IF j > Len(s)
                 THEN ParseFail
                 ELSE CASE s[j] = "," -> ParseElements(s, j + 1, Append(acc, r.v))
                        [] s[j] = "]" -> ParseOk(JArr(Append(acc, r.v)), j + 1)
                        [] OTHER      -> ParseFail

ParseMembers(s, from, acc) ==
    LET k == ParseString(s, SkipWs(s, from))
    IN  IF ~k.ok
        THEN ParseFail
        ELSE LET c == SkipWs(s, k.i)
             IN  IF c > Len(s) \/ s[c] # ":"
                 THEN ParseFail
                 ELSE LET r == ParseValue(s, c + 1)
                      IN  IF ~r.ok
                          THEN ParseFail
                          ELSE LET j   == SkipWs(s, r.i)
                                   all == Append(acc, Member(k.v.s, r.v))
                               IN  IF j > Len(s)
                                   THEN ParseFail
                                   ELSE CASE s[j] = "," -> ParseMembers(s, j + 1, all)
                                          [] s[j] = "}" -> ParseOk(JObj(all), j + 1)
                                          [] OTHER      -> ParseFail

\* JSON.parse(text): one value, then nothing but white space; ok = FALSE
\* stands for the SyntaxError it throws
JSONparse(text) ==
    LET r == ParseValue(text, 1)
    IN  IF r.ok /\ SkipWs(text, r.i) > Len(text) THEN r ELSE ParseFail

(***************************************************************************)
(* JSON.stringify(value, null, gap): gap = 0 is JSON.stringify(value)      *)
(***************************************************************************)
EscapeChar(c) ==
    CASE c = "\"" -> <<"\\", "\"">>
      [] c = "\\" -> <<"\\", "\\">>
      [] c = "\n" -> <<"\\", "n">>
      [] c = "\t" -> <<"\\", "t">>
      [] c = "\r" -> <<"\\", "r">>
      [] OTHER    -> <<c>>

RECURSIVE EscapeChars(_)
EscapeChars(s) ==
    IF s = <<>> THEN <<>> ELSE EscapeChar(Head(s)) \o EscapeChars(Tail(s))

Quote(s) == <<"\"">> \o EscapeChars(s) \o <<"\"">>

Spaces(n) == [i \in 1..n |-> " "]

\* the line break and indentation before an item at nesting depth `level`
Indent(gap, level) == IF gap = 0 THEN <<>> ELSE <<"\n">> \o Spaces(gap * level)

RECURSIVE Stringify(_, _, _)
RECURSIVE StringifyItems(_, _, _, _)
RECURSIVE StringifyMembers(_, _, _, _)

\* the items of an array at depth `level`, k the next item
StringifyItems(a, k, gap, level) ==
    IF k > Len(a)
    THEN <<>>
    ELSE (IF k > 1 THEN <<",">> ELSE <<>>)
         \o Indent(gap, level)
         \o (IF a[k].t = "undefined" THEN LitNull ELSE Stringify(a[k], gap, level))
         \o StringifyItems(a, k + 1, gap, level)

\* the members of an object at depth `level`; `first` tells that none was
\* written yet (a member whose value is undefined is left out)
StringifyMembers(m, first, gap, level) ==
    IF m = <<>>
    THEN <<>>
    ELSE IF Head(m).v.t = "undefined"
         THEN StringifyMembers(Tail(m), first, gap, level)
         ELSE (IF first THEN <<>> ELSE <<",">>)
              \o Indent(gap, level)
              \o Quote(Head(m).k) \o <<":">> \o (IF gap = 0 THEN <<>> ELSE <<" ">>)
              \o Stringify(Head(m).v, gap, level)
              \o StringifyMembers(Tail(m), FALSE, gap, level)

Stringify(v, gap, level) ==
    CASE v.t = "str"  -> Quote(v.s)
      [] v.t = "num"  -> NumberText(v.n)
      [] v.t = "bool" -> IF v.b THEN LitTrue ELSE LitFalse
      [] v.t = "null" -> LitNull
      [] v.t = "arr"  ->
           IF v.a = <<>>
           THEN <<"[", "]">>
           ELSE <<"[">> \o StringifyItems(v.a, 1, gap, level + 1)
                \o Indent(gap, level) \o <<"]">>
      [] v.t = "obj"  ->
           LET body == StringifyMembers(v.m, TRUE, gap, level + 1)
           IN  IF body = <<>>
               THEN <<"{", "}">>
               ELSE <<"{">> \o body \o Indent(gap, level) \o <<"}">>
      [] OTHER        -> <<>>

JSONstringify(v, gap) == Stringify(v, gap, 0)

\* String(v), the coercion a template literal applies
ObjectObject ==
    <<"[", "o", "b", "j", "e", "c", "t", " ", "O", "b", "j", "e", "c", "t", "]">>

LitUndefined == <<"u", "n", "d", "e", "f", "i", "n", "e", "d">>

RECURSIVE ToJsString(_)
RECURSIVE JoinItems(_, _)

JoinItems(a, k) ==
    IF k > Len(a)
    THEN <<>>
    ELSE (IF k > 1 THEN <<",">> ELSE <<>>)
         \o (IF a[k].t \in {"null", "undefined"} THEN <<>> ELSE ToJsString(a[k]))
         \o JoinItems(a, k + 1)

ToJsString(v) ==
    CASE v.t = "str"       -> v.s
      [] v.t = "num"       -> NumberText(v.n)
      [] v.t = "bool"      -> IF v.b THEN LitTrue ELSE LitFalse
      [] v.t = "null"      -> LitNull
      [] v.t = "undefined" -> LitUndefined
      [] v.t = "arr"       -> JoinItems(v.a, 1)
      [] OTHER             -> ObjectObject

(***************************************************************************)
(* Responses built from parts: text segments and <think>...</think> spans  *)
(***************************************************************************)
TextBodies ==
    { <<" ", "a", "\n">>,
      <<"<", "t", "h", "i">>,
      <<"n", "k", ">">>,
      OpenTag,
      CloseTag }

SpanBodies ==
    { <<"x", "\n", "y">>,
      <<"<", "t", "h", "i", "n", "k", ">", "z">> }

Parts ==
    [kind : {"text"}, body : TextBodies] \cup [kind : {"span"}, body : SpanBodies]

PartSeqs == UNION {[1..n -> Parts] : n \in 0..MaxParts}

PartText(p) ==
    IF p.kind = "span" THEN OpenTag \o p.body \o CloseTag ELSE p.body

RECURSIVE Flatten(_)
Flatten(ps) == IF ps = <<>> THEN <<>> ELSE PartText(Head(ps)) \o Flatten(Tail(ps))

RECURSIVE TextOnly(_)
TextOnly(ps) ==
    IF ps = <<>>
    THEN <<>>
    ELSE (IF Head(ps).kind = "text" THEN Head(ps).body ELSE <<>>) \o TextOnly(Tail(ps))

(***************************************************************************)
(* Fixed texts of the program                                              *)
(***************************************************************************)
FlagTest    == <<"-", "-", "t", "e", "s", "t">>
FlagRewrite == <<"-", "-", "r", "e", "w", "r", "i", "t", "e">>
SchemeHttp  == <<"h", "t", "t", "p", ":", "/", "/">>
SchemeHttps == <<"h", "t", "t", "p", "s", ":", "/", "/">>

ErrUrlRequired   == <<"Error: URL is required">>
ErrUrlFormat     == <<"Error: Invalid URL format. URL must start with http:// or https://">>
ErrSupadataKey   == <<"Error: SUPADATA_API_KEY environment variable is required">>
ErrOpenrouterKey ==
    <<"Error: OPENROUTER_API_KEY environment variable is required for --rewrite mode">>
FailedToProcess  == <<"Failed to process URL:", " ">>

MsgSupadataKey   == <<"Supadata API key not configured">>
MsgOpenrouterKey == <<"OpenRouter API key not configured">>
MsgRateLimit     == <<"API rate limit reached, retry later">>
MsgQuota         == <<"API quota insufficient, check the account balance">>
InsufficientQuota == <<"insufficient_quota">>
PrefixTranscribe == <<"URL transcription failed: ">>
PrefixSummary    == <<"topic extraction failed: ">>
PrefixSuggest    == <<"topic suggestion failed: ">>
PrefixRewrite    == <<"content rewrite failed: ">>

KeyText      == <<"text">>
KeyContent   == <<"content">>
KeyScript    == <<"script">>
KeyCaption   == <<"caption">>
KeyOverlay   == <<"overlay">>
KeyAudioText == <<"audioText">>
KeyTimestamp == <<"timestamp">>
KeySource    == <<"source">>
KeyUrl       == <<"url">>
KeySecondaryCreation == <<"secondaryCreation">>
KeyTopicSuggestion   == <<"topicSuggestion">>
KeyRewrittenContent  == <<"rewrittenContent">>
KeySplitSections     == <<"splitSections">>

FallbackCaption == <<"Generated content - see script for details">>
FallbackOverlay == <<"Key points from rewritten content">>
DefaultOverlay  == <<"overlay content">>
DefaultScript   == <<"script content">>
DefaultCaption  == <<"caption content">>

DirTranscripts == "transcripts"
DirRewrites    == "transcripts/rewrites"
FileJson       == "transcripts/transcript_<now>.json"
FileText       == "transcripts/transcript_<now>.txt"
FileScript     == "transcripts/rewrites/script_<now>.txt"
FileCaption    == "transcripts/rewrites/caption_<now>.txt"
FileOverlay    == "transcripts/rewrites/overlay_<now>.txt"
FileOralScript == "transcripts/rewrites/oral_script_<now>.md"

(***************************************************************************)
(* The environment: command lines, credentials, service responses          *)
(***************************************************************************)
ArgTokens ==
    { FlagTest,
      FlagRewrite,
      SchemeHttps \o <<"v">>,
      SchemeHttp \o <<"v">>,
      <<"f", "t", "p", ":", "/", "/", "v">> }

\* process.argv: the interpreter, the script, then the user's arguments
Argvs ==
    { << <<"node">>, <<"video-analyzer.js">> >> \o a :
        a \in UNION {[1..n -> ArgTokens] : n \in 0..MaxArgs} }

Envs ==
    [ SUPADATA_API_KEY   : {JUndef, JStr(<<"s", "k">>)},
      OPENROUTER_API_KEY : {JUndef, JStr(<<"o", "k">>)},
      USE_PROXY          : {JUndef},
      HTTP_PROXY         : {JUndef} ]

\* what supadata.transcript resolves to: a string, {text}, {content}, or an
\* object with neither (a job handle)
TranscriptResults ==
    { JStr(<<"h", "i">>),
      JObj(<<Member(KeyText, JStr(<<"h", "i">>))>>),
      JObj(<<Member(KeyContent, JStr(<<"h", "\"", "i">>))>>),
      JObj(<<Member(<<"jobId">>, JStr(<<"j">>))>>) }

\* what a rejected request carries: status is error.response.status (0 when
\* the error has no response), message is error.message
SupadataErrors == { [status |-> 0, message |-> <<"Unsupported URL">>] }

AxiosErrors ==
    { [status |-> 429, message |-> <<"Request failed with status code 429">>],
      [status |-> 500, message |-> <<"Request failed with status code 500">>],
      [status |-> 0,   message |-> <<"quota: ">> \o InsufficientQuota],
      [status |-> 0,   message |-> <<"timeout of 60000ms exceeded">>] }

Summaries == { <<"s", "u", "m">> }

\* the reasoning model's answers
SuggestResponses ==
    { <<"i", "d", "e", "a">>,
      Flatten(<<[kind |-> "span", body |-> <<"r", "\n">>],
                [kind |-> "text", body |-> <<" ", "i", "d", "e", "a">>]>>),
      Flatten(<<[kind |-> "text", body |-> <<"<", "t", "h", "i">>],
                [kind |-> "span", body |-> <<"r">>],
                [kind |-> "text", body |-> <<"n", "k", ">", "x">>],
                [kind |-> "text", body |-> CloseTag]>>),
      OpenTag \o <<"r">> }

FullRewrite ==
    JObj(<<Member(KeyScript, JStr(<<"S", " ", "[PAUSE]">>)),
           Member(KeyCaption, JStr(<<"C">>)),
           Member(KeyOverlay, JStr(<<"O">>))>>)

FullRewriteText == JSONstringify(FullRewrite, 2)

\* the rewrite model's answers
RewriteContents ==
    { FullRewriteText,
      SubSeq(FullRewriteText, 1, Len(FullRewriteText) - 1),
      <<"Here is the rewrite:", "\n">> \o FullRewriteText,
      <<>>,
      LitNull,
      <<"4", "2">>,
      <<"[", "]">>,
      JSONstringify(JObj(<<Member(KeyScript, JStr(<<"S">>))>>), 0),
      JSONstringify(JObj(<<Member(KeyScript, JStr(<<>>)),
                           Member(KeyCaption, JNum(7)),
                           Member(KeyOverlay, JStr(<<"O">>))>>), 0) }

(***************************************************************************)
(* class VideoAnalyzer                                                     *)
(***************************************************************************)
\* how a request ended: resolved with a body, or rejected with an error
Resolved(body)  == [ok |-> TRUE, body |-> body]
Rejected(error) == [ok |-> FALSE, error |-> error]

\* new Error(message): an error without a response
NewError(message) == [status |-> 0, message |-> message]

\* transcribeFromUrl: the text taken out of the service's result
ExtractTranscript(transcriptResult) ==
    IF transcriptResult.t = "str"
    THEN transcriptResult
    ELSE IF Truthy(Get(transcriptResult, KeyText))
         THEN Get(transcriptResult, KeyText)
         ELSE IF Truthy(Get(transcriptResult, KeyContent))
              THEN Get(transcriptResult, KeyContent)
              ELSE transcriptResult

\* "Ensure we have a string, not an object"
TextContent(transcriptText) ==
    IF transcriptText.t = "str"
    THEN transcriptText
    ELSE OrElse(Get(transcriptText, KeyContent),
                OrElse(Get(transcriptText, KeyText),
                       JStr(JSONstringify(transcriptText, 0))))

\* the catch block shared by extractTopicSummary, suggestSimilarTopic and
\* rewriteContent: the error thrown for the error caught
StageError(prefix, error) ==
    IF error.status = 429
    THEN NewError(MsgRateLimit)
    ELSE IF Includes(error.message, InsufficientQuota)
         THEN NewError(MsgQuota)
         ELSE NewError(prefix \o error.message)

\* rewriteContent, from the response text on (lines 391-403)
RewriteResult(content) ==
    LET parsed == JSONparse(content)
    IN  IF parsed.ok
        THEN parsed.v
        ELSE JObj(<<Member(KeyScript, JStr(content)),
                    Member(KeyCaption, JStr(FallbackCaption)),
                    Member(KeyOverlay, JStr(FallbackOverlay))>>)

\* splitRewrittenContent (defined when rewrittenContent is not null)
splitRewrittenContent(rc) ==
    JObj(<<Member(KeyOverlay, OrElse(Get(rc, KeyOverlay), JStr(DefaultOverlay))),
           Member(KeyScript, OrElse(Get(rc, KeyScript), JStr(DefaultScript))),
           Member(KeyCaption, OrElse(Get(rc, KeyCaption), JStr(DefaultCaption)))>>)

(***************************************************************************)
(* main: configuration                                                     *)
(***************************************************************************)
ArrIncludes(a, x) == \E i \in 1..Len(a) : a[i] = x

Config(e) ==
    [ supadataApiKey   |-> e.SUPADATA_API_KEY,
      openrouterApiKey |-> e.OPENROUTER_API_KEY,
      useProxy         |-> (e.USE_PROXY.t = "str" /\ e.USE_PROXY.s = LitTrue),
      httpProxy        |-> e.HTTP_PROXY ]

EnableSecondaryCreation_Always(a) == TRUE

EnableSecondaryCreation(a) == ArrIncludes(a, FlagRewrite)

TestMode(a, config) == ArrIncludes(a, FlagTest) \/ ~Truthy(config.supadataApiKey)

Args(a) ==
    LET NotFlag(x) == x # FlagTest /\ x # FlagRewrite
    IN  SelectSeq(a, NotFlag)

\* args[2]
Url(a) == IF Len(Args(a)) >= 3 THEN JStr(Args(a)[3]) ELSE JUndef

\* the checks without the one on SUPADATA_API_KEY
ConfigError_NoSupadataCheck(a, config) ==
    IF ~Truthy(Url(a))
    THEN ErrUrlRequired
    ELSE IF ~StartsWith(Url(a).s, SchemeHttp) /\ ~StartsWith(Url(a).s, SchemeHttps)
         THEN ErrUrlFormat
         ELSE IF EnableSecondaryCreation(a) /\ ~Truthy(config.openrouterApiKey)
              THEN ErrOpenrouterKey
              ELSE <<>>

\* the pre-flight checks, in order: the diagnostic of the first that fails,
\* <<>> when all pass
ConfigError(a, config) ==
    IF ~Truthy(Url(a))
    THEN ErrUrlRequired
    ELSE IF ~StartsWith(Url(a).s, SchemeHttp) /\ ~StartsWith(Url(a).s, SchemeHttps)
         THEN ErrUrlFormat
         ELSE IF ~Truthy(config.supadataApiKey)
              THEN ErrSupadataKey
              ELSE IF EnableSecondaryCreation(a) /\ ~Truthy(config.openrouterApiKey)
                   THEN ErrOpenrouterKey
                   ELSE <<>>

UsageLines ==
    << <<"Usage: node video-analyzer.js <URL> [--rewrite]">>,
       <<"Example: node video-analyzer.js https://www.youtube.com/watch?v=dQw4w9WgXcQ">>,
       <<"Example: node video-analyzer.js https://www.youtube.com/watch?v=dQw4w9WgXcQ --rewrite">>,
       <<"Supported platforms: YouTube, TikTok, Instagram, X (Twitter)">>,
       <<"--rewrite: Enable secondary creation flow (requires OPENROUTER_API_KEY)">> >>

SetOrNot(v) == IF Truthy(v) THEN <<"Set">> ELSE <<"Not set">>

TestModeLines(a, config) ==
    << <<"=== TEST MODE ===">>,
       <<"URL detected:", " ">> \o Url(a).s,
       <<"Supadata API key:", " ">> \o SetOrNot(config.supadataApiKey),
       <<"OpenRouter API key:", " ">> \o SetOrNot(config.openrouterApiKey),
       <<"Secondary creation enabled:", " ">>
           \o ToJsString(JBool(EnableSecondaryCreation(a))),
       <<"Proxy enabled:", " ">> \o ToJsString(JBool(config.useProxy)) >>
    \o (IF config.useProxy
        THEN << <<"Proxy URL:", " ">> \o ToJsString(config.httpProxy) >>
        ELSE <<>>)
    \o << <<"\n", "Test completed successfully! Set required API keys to run full analysis.">> >>

(***************************************************************************)
(* main: the steps of the pipeline                                         *)
(***************************************************************************)
Init ==
    /\ argv \in Argvs
    /\ env \in Envs
    /\ dirs \in {{}, {DirTranscripts}, {DirTranscripts, DirRewrites}}
    /\ files = <<>>
    /\ pc = "start"
    /\ exitCode = 0
    /\ stdout = <<>>
    /\ stderr = <<>>
    /\ calls = <<>>
    /\ audioText = JUndef
    /\ result = JUndef
    /\ topicSummary = JUndef
    /\ topicSuggestion = JUndef
    /\ cleanedSuggestion = JUndef
    /\ rewrittenContent = JUndef
    /\ splitContent = JUndef
    /\ sanParts = <<>>
    /\ sanStage = 0
    /\ sanOnce = <<>>
    /\ sanTwice = <<>>

\* a catch block that saves the transcript before giving up
MainCatch_SavesTranscript(error) ==
    /\ stderr' = Append(stderr, FailedToProcess \o error.message)
    /\ exitCode' = 1
    /\ pc' = "exited"
    /\ dirs' = dirs \cup {DirTranscripts}
    /\ files' = Append(files, [path |-> FileText, data |-> ToJsString(audioText)])

\* main's catch block (lines 607-610)
MainCatch(error) ==
    /\ stderr' = Append(stderr, FailedToProcess \o error.message)
    /\ exitCode' = 1
    /\ pc' = "exited"
    /\ UNCHANGED <<dirs, files>>

\* lines 426-486: the configuration, the pre-flight checks, test mode
Main_Validate ==
    /\ pc = "start"
    /\ LET config == Config(env)
           err    == ConfigError(argv, config)
       IN  IF err # <<>>
           THEN /\ stderr' = Append(stderr, err)
                /\ stdout' = IF err = ErrUrlRequired THEN stdout \o UsageLines ELSE stdout
                /\ exitCode' = 1
                /\ pc' = "exited"
           ELSE IF TestMode(argv, config)
                THEN /\ stdout' = stdout \o TestModeLines(argv, config)
                     /\ pc' = "exited"
                     /\ UNCHANGED <<stderr, exitCode>>
                ELSE /\ stdout' = stdout \o << <<"Starting URL transcript analysis...">>,
                                              <<"URL:", " ">> \o Url(argv).s >>
                     /\ pc' = "transcribe"
                     /\ UNCHANGED <<stderr, exitCode>>
    /\ UNCHANGED <<argv, env, dirs, files, calls, audioText, result, topicSummary,
                   topicSuggestion, cleanedSuggestion, rewrittenContent, splitContent>>
    /\ UNCHANGED sanVars

\* where main goes once the transcript is there (line 502)
AfterTranscribe == IF EnableSecondaryCreation(argv) THEN "summarize" ELSE "persist"

\* lines 488-499 with transcribeFromUrl resolving
TranscribeOk(transcriptResult) ==
    /\ calls' = Append(calls, [svc |-> "transcript", arg |-> Url(argv).s,
                               reply |-> Resolved(transcriptResult)])
    /\ audioText' = ExtractTranscript(transcriptResult)
    /\ result' = JObj(<<Member(KeyAudioText, audioText'),
                        Member(KeyTimestamp, JStr(<<"<iso time>">>)),
                        Member(KeySource, JStr(<<"url">>)),
                        Member(KeyUrl, Url(argv))>>)
    /\ stdout' = stdout \o << <<"\n", "=== ANALYSIS RESULTS ===">>,
                              <<"\n", "Audio Transcription:">>,
                              ToJsString(audioText') >>
                          \o (IF EnableSecondaryCreation(argv)
                              THEN << <<"\n", "=== STARTING SECONDARY CREATION FLOW ===">> >>
                              ELSE <<>>)
    /\ pc' = AfterTranscribe
    /\ UNCHANGED <<stderr, exitCode, dirs, files>>

\* transcribeFromUrl rejecting: its catch block wraps the message
TranscribeFails(error) ==
    /\ calls' = Append(calls, [svc |-> "transcript", arg |-> Url(argv).s,
                               reply |-> Rejected(error)])
    /\ MainCatch(NewError(PrefixTranscribe \o error.message))
    /\ UNCHANGED <<stdout, audioText, result>>

Transcribe ==
    /\ pc = "transcribe"
    /\ IF ~Truthy(Config(env).supadataApiKey)
       THEN /\ MainCatch(NewError(PrefixTranscribe \o MsgSupadataKey))
            /\ UNCHANGED <<calls, stdout, audioText, result>>
       ELSE \/ \E r \in TranscriptResults : TranscribeOk(r)
            \/ \E e \in SupadataErrors : TranscribeFails(e)
    /\ UNCHANGED <<argv, env, topicSummary, topicSuggestion, cleanedSuggestion,
                   rewrittenContent, splitContent>>
    /\ UNCHANGED sanVars

\* the value the prompt of extractTopicSummary interpolates (line 206), given
\* what suggestSimilarTopic passes (lines 260-267)
SummaryPrompt(transcriptText) == ToJsString(TextContent(TextContent(transcriptText)))

\* a summarize step that asks again when it is rate limited
SummarizeFails_Retries(error) ==
    /\ calls' = Append(calls, [svc |-> "summarize", arg |-> SummaryPrompt(audioText),
                               reply |-> Rejected(error)])
    /\ IF error.status = 429
       THEN UNCHANGED <<stderr, exitCode, pc, dirs, files>>
       ELSE MainCatch(StageError(PrefixSuggest, StageError(PrefixSummary, error)))
    /\ UNCHANGED <<stdout, topicSummary>>

\* extractTopicSummary rejecting: its catch block throws, and the catch block
\* of suggestSimilarTopic, which called it, throws in turn
SummarizeFails(error) ==
    /\ calls' = Append(calls, [svc |-> "summarize", arg |-> SummaryPrompt(audioText),
                               reply |-> Rejected(error)])
    /\ MainCatch(StageError(PrefixSuggest, StageError(PrefixSummary, error)))
    /\ UNCHANGED <<stdout, topicSummary>>

\* lines 254-268 with extractTopicSummary (188-241) resolving
SummarizeOk(summary) ==
    /\ calls' = Append(calls, [svc |-> "summarize", arg |-> SummaryPrompt(audioText),
                               reply |-> Resolved(summary)])
    /\ topicSummary' = JStr(summary)
    /\ stdout' = stdout \o << <<"topic extraction done:", " ">> \o summary >>
    /\ pc' = "suggest"
    /\ UNCHANGED <<stderr, exitCode, dirs, files>>

Summarize ==
    /\ pc = "summarize"
    /\ IF ~Truthy(Config(env).openrouterApiKey)
       THEN /\ MainCatch(StageError(PrefixSuggest, NewError(MsgOpenrouterKey)))
            /\ UNCHANGED <<calls, stdout, topicSummary>>
       ELSE \/ \E s \in Summaries : SummarizeOk(s)
            \/ \E e \in AxiosErrors : SummarizeFails(e)
    /\ UNCHANGED <<argv, env, audioText, result, topicSuggestion, cleanedSuggestion,
                   rewrittenContent, splitContent>>
    /\ UNCHANGED sanVars

\* a suggest step whose prompt carries the transcript instead of the summary
SuggestOk_SendsTranscript(content) ==
    /\ calls' = Append(calls, [svc |-> "suggest", arg |-> ToJsString(audioText),
                               reply |-> Resolved(content)])
    /\ topicSuggestion' = JStr(content)
    /\ cleanedSuggestion' = JStr(cleanPerplexityResponse(content))
    /\ stdout' = stdout \o << <<"\n", "Topic Suggestion (Raw):">>, content,
                              <<"\n", "Cleaned Topic Suggestion:">>,
                              cleanedSuggestion'.s >>
    /\ pc' = "rewrite"
    /\ UNCHANGED <<stderr, exitCode, dirs, files>>

\* lines 270-306 resolving, then lines 506-513: the suggestion is cleaned
SuggestOk(content) ==
    /\ calls' = Append(calls, [svc |-> "suggest", arg |-> ToJsString(topicSummary),
                               reply |-> Resolved(content)])
    /\ topicSuggestion' = JStr(content)
    /\ cleanedSuggestion' = JStr(cleanPerplexityResponse(content))
    /\ stdout' = stdout \o << <<"\n", "Topic Suggestion (Raw):">>, content,
                              <<"\n", "Cleaned Topic Suggestion:">>,
                              cleanedSuggestion'.s >>
    /\ pc' = "rewrite"
    /\ UNCHANGED <<stderr, exitCode, dirs, files>>

SuggestFails(error) ==
    /\ calls' = Append(calls, [svc |-> "suggest", arg |-> ToJsString(topicSummary),
                               reply |-> Rejected(error)])
    /\ MainCatch(StageError(PrefixSuggest, error))
    /\ UNCHANGED <<stdout, topicSuggestion, cleanedSuggestion>>

Suggest ==
    /\ pc = "suggest"
    /\ \/ \E c \in SuggestResponses : SuggestOk(c)
       \/ \E e \in AxiosErrors : SuggestFails(e)
    /\ UNCHANGED <<argv, env, audioText, result, topicSummary, rewrittenContent,
                   splitContent>>
    /\ UNCHANGED sanVars

\* the request rewriteContent sends: the two values its prompt interpolates
\* (lines 333-334)
RewriteCall(reply) ==
    [svc |-> "rewrite",
     arg |-> [originalTranscript |-> ToJsString(audioText),
              topicSuggestion |-> ToJsString(cleanedSuggestion)],
     reply |-> reply]

\* lines 376-403 resolving, then lines 516-532: split and assemble; reading
\* a key of null throws a TypeError, which main catches
RewriteOk(content) ==
    /\ calls' = Append(calls, RewriteCall(Resolved(content)))
    /\ rewrittenContent' = RewriteResult(content)
    /\ IF ThrowsOnRead(rewrittenContent')
       THEN /\ stdout' = stdout \o << <<"\n", "Rewritten Content:">>,
                                      JSONstringify(rewrittenContent', 2) >>
            /\ MainCatch(NewError(<<"Cannot read properties of null (reading 'overlay')">>))
            /\ UNCHANGED <<splitContent, result>>
       ELSE /\ splitContent' = splitRewrittenContent(rewrittenContent')
            /\ stdout' = stdout \o << <<"\n", "Rewritten Content:">>,
                                      JSONstringify(rewrittenContent', 2),
                                      <<"\n", "Split Content Sections:">>,
                                      <<"Overlay:", " ">>
                                          \o ToJsString(Get(splitContent', KeyOverlay)),
                                      <<"Script:", " ">>
                                          \o ToJsString(Get(splitContent', KeyScript)),
                                      <<"Caption:", " ">>
                                          \o ToJsString(Get(splitContent', KeyCaption)) >>
            /\ result' = JObj(result.m \o
                   <<Member(KeySecondaryCreation,
                       JObj(<<Member(KeyTopicSuggestion, cleanedSuggestion),
                              Member(KeyRewrittenContent, rewrittenContent'),
                              Member(KeySplitSections, splitContent')>>))>>)
            /\ pc' = "persist"
            /\ UNCHANGED <<stderr, exitCode, dirs, files>>

RewriteFails(error) ==
    /\ calls' = Append(calls, RewriteCall(Rejected(error)))
    /\ MainCatch(StageError(PrefixRewrite, error))
    /\ UNCHANGED <<stdout, rewrittenContent, splitContent, result>>

Rewrite ==
    /\ pc = "rewrite"
    /\ IF ~Truthy(Config(env).openrouterApiKey)
       THEN /\ MainCatch(StageError(PrefixRewrite, NewError(MsgOpenrouterKey)))
            /\ UNCHANGED <<calls, stdout, rewrittenContent, splitContent, result>>
       ELSE \/ \E c \in RewriteContents : RewriteOk(c)
            \/ \E e \in AxiosErrors : RewriteFails(e)
    /\ UNCHANGED <<argv, env, audioText, topicSummary, topicSuggestion,
                   cleanedSuggestion>>
    /\ UNCHANGED sanVars

(***************************************************************************)
(* main: persistence (lines 535-605)                                       *)
(***************************************************************************)
OralScript(r) ==
    LET sc == Get(r, KeySecondaryCreation)
        ss == Get(sc, KeySplitSections)
    IN  <<"# Oral Presentation Script", "\n", "\n", "## Basics", "\n",
          "- **URL**: ">> \o ToJsString(Get(r, KeyUrl))
        \o <<"\n", "- **Generated**: ", "<local time>", "\n", "- **Topic**: ">>
        \o ToJsString(Get(sc, KeyTopicSuggestion))
        \o <<"\n", "\n", "## Caption", "\n">> \o ToJsString(Get(ss, KeyCaption))
        \o <<"\n", "\n", "## Script", "\n">> \o ToJsString(Get(ss, KeyScript))
        \o <<"\n", "\n", "## Overlay", "\n">> \o ToJsString(Get(ss, KeyOverlay))
        \o <<"\n", "\n", "---", "\n", "\n", "## Usage notes", "\n">>

\* the writeFileSync calls main makes, in order
Writes(r) ==
    LET sc == Get(r, KeySecondaryCreation)
        ss == Get(sc, KeySplitSections)
    IN  << [path |-> FileJson, data |-> JStr(JSONstringify(r, 2))],
           [path |-> FileText, data |-> Get(r, KeyAudioText)] >>
        \o (IF EnableSecondaryCreation(argv) /\ Truthy(sc)
            THEN << [path |-> FileScript,  data |-> Get(ss, KeyScript)],
                    [path |-> FileCaption, data |-> Get(ss, KeyCaption)],
                    [path |-> FileOverlay, data |-> Get(ss, KeyOverlay)],
                    [path |-> FileOralScript, data |-> JStr(OralScript(r))] >>
            ELSE <<>>)

\* the directories main has made sure of when it has done n writes
DirsAfter(n) ==
    dirs \cup {DirTranscripts} \cup (IF n >= 2 /\ Len(Writes(result)) > 2
                                     THEN {DirRewrites} ELSE {})

Written(ws) == [k \in 1..Len(ws) |-> [path |-> ws[k].path, data |-> ToJsString(ws[k].data)]]

\* writeFileSync given data that is no string either throws a TypeError
\* (the runtimes that refuse such data; `strict`) or writes String(data) (the
\* older runtimes): the program does not fix the runtime
Persist ==
    /\ pc = "persist"
    /\ \E strict \in BOOLEAN :
          LET ws  == Writes(result)
              bad == {k \in 1..Len(ws) : ws[k].data.t # "str"}
          IN  IF strict /\ bad # {}
              THEN /\ files' = files \o Written(SubSeq(ws, 1, SeqMin(bad) - 1))
                   /\ dirs' = DirsAfter(SeqMin(bad) - 1)
                   /\ stderr' = Append(stderr, FailedToProcess
                                    \o <<"The \"data\" argument must be of type string">>)
                   /\ exitCode' = 1
                   /\ UNCHANGED stdout
              ELSE /\ files' = files \o Written(ws)
                   /\ dirs' = DirsAfter(Len(ws))
                   /\ stdout' = stdout
                          \o (IF Len(ws) > 2
                              THEN << <<"Oral Script saved to: ", FileOralScript>>,
                                      <<"Script saved to: ", FileScript>>,
                                      <<"Caption saved to: ", FileCaption>>,
                                      <<"Overlay saved to: ", FileOverlay>> >>
                              ELSE <<>>)
                          \o << <<"Results saved to: ", FileJson>>,
                                <<"Text transcript saved to: ", FileText>> >>
                   /\ UNCHANGED <<stderr, exitCode>>
    /\ pc' = "exited"
    /\ UNCHANGED <<argv, env, calls, audioText, result, topicSummary, topicSuggestion,
                   cleanedSuggestion, rewrittenContent, splitContent>>
    /\ UNCHANGED sanVars

Next == Main_Validate \/ Transcribe \/ Summarize \/ Suggest \/ Rewrite \/ Persist

Spec == Init /\ [][Next]_vars

(***************************************************************************)
(* Sanitizer harness: the pure function applied to bounded inputs          *)
(***************************************************************************)
SanInit ==
    /\ sanParts \in PartSeqs
    /\ sanStage = 0
    /\ sanOnce = <<>>
    /\ sanTwice = <<>>
    /\ argv = << <<"node">>, <<"video-analyzer.js">> >>
    /\ env = [SUPADATA_API_KEY |-> JUndef, OPENROUTER_API_KEY |-> JUndef,
              USE_PROXY |-> JUndef, HTTP_PROXY |-> JUndef]
    /\ dirs = {}
    /\ files = <<>>
    /\ pc = "start"
    /\ exitCode = 0
    /\ stdout = <<>>
    /\ stderr = <<>>
    /\ calls = <<>>
    /\ audioText = JUndef
    /\ result = JUndef
    /\ topicSummary = JUndef
    /\ topicSuggestion = JUndef
    /\ cleanedSuggestion = JUndef
    /\ rewrittenContent = JUndef
    /\ splitContent = JUndef

SanitizeOnce ==
    /\ sanStage = 0
    /\ sanOnce' = cleanPerplexityResponse(Flatten(sanParts))
    /\ sanStage' = 1
    /\ UNCHANGED <<sanParts, sanTwice>>
    /\ UNCHANGED mainVars

SanitizeTwice ==
    /\ sanStage = 1
    /\ sanTwice' = cleanPerplexityResponse(sanOnce)
    /\ sanStage' = 2
    /\ UNCHANGED <<sanParts, sanOnce>>
    /\ UNCHANGED mainVars

SanNext == SanitizeOnce \/ SanitizeTwice

SpecClean == SanInit /\ [][SanNext]_vars

(***************************************************************************)
(* C1: sanitizing is idempotent: for every input, sanitizing the sanitized *)
(* text again gives the same text.                                         *)
(***************************************************************************)
C1_Idempotent == sanStage = 2 => sanTwice = sanOnce

(***************************************************************************)
(* C2: for an input built from marker-free text segments and well-formed   *)
(* spans, the result is the concatenation of the text segments, trimmed.   *)
(***************************************************************************)
MarkerFree(s) == ~Includes(s, OpenTag) /\ ~Includes(s, CloseTag)

\* parts i..j are all text: they lie in one text segment
TextRun(ps, i, j) == \A k \in i..j : ps[k].kind = "text"

\* every text segment (a maximal run of text parts, hence every run) holds no
\* marker, and every span body ends at the span's own closing tag
WellFormedInput(ps) ==
    /\ \A i \in 1..Len(ps) : \A j \in i..Len(ps) :
           TextRun(ps, i, j) => MarkerFree(TextOnly(SubSeq(ps, i, j)))
    /\ \A k \in 1..Len(ps) :
           ps[k].kind = "span" => ~Includes(ps[k].body, CloseTag)

C2_SpansRemoved ==
    (sanStage >= 1 /\ WellFormedInput(sanParts)) => sanOnce = Trim(TextOnly(sanParts))

C2_Witness ==
    /\ sanStage >= 1
    /\ WellFormedInput(sanParts)
    /\ Cardinality({k \in 1..Len(sanParts) : sanParts[k].kind = "span"}) >= 2
    /\ \E k \in 1..Len(sanParts) :
          sanParts[k].kind = "span" /\ Includes(sanParts[k].body, <<"\n">>)
    /\ sanOnce # <<>>
    /\ Len(sanOnce) < Len(TextOnly(sanParts))
(***************************************************************************)
(* Vocabulary of the claims about main                                     *)
(***************************************************************************)
\* the user's arguments: process.argv without the interpreter and the script
UserArgs == SubSeq(argv, 3, Len(argv))

HasFlag(f) == \E i \in 1..Len(UserArgs) : UserArgs[i] = f

\* the user's arguments that are no flag
Positional ==
    LET IsPositional(x) == x \notin {FlagTest, FlagRewrite}
    IN  SelectSeq(UserArgs, IsPositional)

HasPrefix(s, p) == Len(s) >= Len(p) /\ SubSeq(s, 1, Len(p)) = p

WellFormedUrl(u) == HasPrefix(u, SchemeHttp) \/ HasPrefix(u, SchemeHttps)

KeyPresent(name) == env[name] # JUndef

Services == [k \in 1..Len(calls) |-> calls[k].svc]

SomeCallFailed == \E k \in 1..Len(calls) : ~calls[k].reply.ok

\* the text the service `svc` answered with (the call was made and resolved)
Answered(svc) == \E k \in 1..Len(calls) : calls[k].svc = svc /\ calls[k].reply.ok
AnswerOf(svc) ==
    calls[CHOOSE k \in 1..Len(calls) : calls[k].svc = svc /\ calls[k].reply.ok].reply.body

RequestOf(svc) == calls[CHOOSE k \in 1..Len(calls) : calls[k].svc = svc].arg

FilePaths == {files[k].path : k \in 1..Len(files)}

\* the record read back from the JSON file
PersistedRecord ==
    JSONparse((CHOOSE f \in {files[k] : k \in 1..Len(files)} : f.path = FileJson).data).v

KeysOf(obj) == {obj.m[i].k : i \in 1..Len(obj.m)}

Printed(line) == \E k \in 1..Len(stdout) : stdout[k] = line

\* some <think>...</think> span occurs in s
HasThinkSpan(s) ==
    \E i \in 1..Len(s) :
        /\ MatchesAt(s, i, OpenTag)
        /\ \E j \in (i + Len(OpenTag))..Len(s) : MatchesAt(s, j, CloseTag)

(***************************************************************************)
(* C3: when the rewrite call succeeds with a text that JSON.parse rejects  *)
(* (truncated braces, an empty response), no error is raised, the rewritten*)
(* content is the record {script: the raw text, non-empty; caption and     *)
(* overlay: the fixed placeholders}, and the run goes on to persistence.   *)
(***************************************************************************)
C3_UnparseableFallsBack ==
    (Answered("rewrite") /\ ~JSONparse(AnswerOf("rewrite")).ok) =>
        /\ rewrittenContent.t = "obj"
        /\ KeysOf(rewrittenContent) = {KeyScript, KeyCaption, KeyOverlay}
        /\ Get(rewrittenContent, KeyScript) = JStr(AnswerOf("rewrite"))
        /\ Get(rewrittenContent, KeyScript).s # <<>>
        /\ Get(rewrittenContent, KeyCaption) = JStr(FallbackCaption)
        /\ Get(rewrittenContent, KeyOverlay) = JStr(FallbackOverlay)
        /\ pc = "persist" \/ (pc = "exited" /\ FileJson \in FilePaths)

(***************************************************************************)
(* C4: whatever text the rewrite model answers with, the value that        *)
(* rewriteContent returns (and main stores as rewrittenContent) is a       *)
(* record with script, caption and overlay all present.                    *)
(***************************************************************************)
FieldPresent(v, key) == v.t = "obj" /\ Get(v, key) \notin {JUndef, JNull}

C4_AllFieldsPopulated ==
    Answered("rewrite") =>
        \A key \in {KeyScript, KeyCaption, KeyOverlay} :
            FieldPresent(rewrittenContent, key)

(***************************************************************************)
(* C5: with --test and a well-formed URL, whatever credentials are set and *)
(* with or without --rewrite, main issues no request, writes no file,      *)
(* prints the resolved configuration and ends with exit status zero.       *)
(***************************************************************************)
TestRun ==
    /\ HasFlag(FlagTest)
    /\ Positional # <<>>
    /\ WellFormedUrl(Positional[1])

C5_TestModeIsDry ==
    TestRun =>
        /\ calls = <<>>
        /\ files = <<>>
        /\ pc \in {"start", "exited"}
        /\ pc = "exited" => (exitCode = 0 /\ Printed(<<"=== TEST MODE ===">>))

(***************************************************************************)
(* C6: a missing positional argument, a URL that starts with neither       *)
(* http:// nor https://, an absent SUPADATA_API_KEY, or --rewrite without  *)
(* OPENROUTER_API_KEY makes main end with a non-zero exit status and a     *)
(* diagnostic on the error stream, before any request and any file.        *)
(***************************************************************************)
BadConfiguration ==
    \/ Positional = <<>>
    \/ ~WellFormedUrl(Positional[1])
    \/ ~KeyPresent("SUPADATA_API_KEY")
    \/ HasFlag(FlagRewrite) /\ ~KeyPresent("OPENROUTER_API_KEY")

C6_BadConfigurationExits ==
    BadConfiguration =>
        /\ calls = <<>>
        /\ files = <<>>
        /\ pc \in {"start", "exited"}
        /\ pc = "exited" => (exitCode # 0 /\ Len(stderr) = 1 /\ stdout \in {<<>>, UsageLines})

C6_Witness ==
    /\ pc = "exited"
    /\ exitCode = 1
    /\ Positional # <<>>
    /\ WellFormedUrl(Positional[1])
    /\ KeyPresent("SUPADATA_API_KEY")
    /\ HasFlag(FlagRewrite)
    /\ ~HasFlag(FlagTest)
    /\ ~KeyPresent("OPENROUTER_API_KEY")
    /\ stderr = <<ErrOpenrouterKey>>

(***************************************************************************)
(* C7: without --rewrite, a run whose transcription succeeds persists a    *)
(* record with the transcript, the timestamp, source and url and nothing   *)
(* else, and the transcription request is the only request ever issued.    *)
(***************************************************************************)
BasicKeys == {KeyAudioText, KeyTimestamp, KeySource, KeyUrl}

C7_TranscriptOnly ==
    ~HasFlag(FlagRewrite) =>
        /\ Len(calls) <= 1
        /\ \A k \in 1..Len(calls) : calls[k].svc = "transcript"
        /\ pc \notin {"summarize", "suggest", "rewrite"}
        /\ (pc = "exited" /\ Answered("transcript")) =>
              /\ Len(calls) = 1
              /\ FileJson \in FilePaths
              /\ KeysOf(PersistedRecord) = BasicKeys
              /\ Get(PersistedRecord, KeyAudioText) = ExtractTranscript(AnswerOf("transcript"))
              /\ Get(PersistedRecord, KeyUrl) = JStr(Positional[1])
              /\ FilePaths \subseteq {FileJson, FileText}

C7_Witness ==
    /\ ~HasFlag(FlagRewrite)
    /\ KeyPresent("OPENROUTER_API_KEY")
    /\ pc = "exited"
    /\ exitCode = 0
    /\ Services = <<"transcript">>
    /\ FilePaths = {FileJson, FileText}
    /\ KeysOf(PersistedRecord) = BasicKeys

(***************************************************************************)
(* C8: with --rewrite and every stage successful, the persisted record     *)
(* holds the transcript, a topicSuggestion that is the sanitized model     *)
(* output and contains no <think>...</think> span, and the rewritten       *)
(* content; the rewrite request carries that sanitized suggestion and the  *)
(* transcript unchanged.                                                   *)
(***************************************************************************)
C8_SanitizedSuggestionPersisted ==
    (HasFlag(FlagRewrite) /\ pc = "exited" /\ FileJson \in FilePaths) =>
        LET sc == Get(PersistedRecord, KeySecondaryCreation)
            ts == Get(sc, KeyTopicSuggestion)
        IN  /\ Get(PersistedRecord, KeyAudioText) = ExtractTranscript(AnswerOf("transcript"))
            /\ ts = JStr(cleanPerplexityResponse(AnswerOf("suggest")))
            /\ ~HasThinkSpan(ts.s)
            /\ Get(sc, KeyRewrittenContent) # JUndef
            /\ RequestOf("rewrite").topicSuggestion = ts.s
            /\ RequestOf("rewrite").originalTranscript
                   = ToJsString(ExtractTranscript(AnswerOf("transcript")))

(***************************************************************************)
(* C9: once a stage (transcription, summarize, suggest, rewrite) fails,    *)
(* no later stage runs, nothing is written, the failure is reported on the *)
(* error stream and the process ends with a non-zero status; files exist   *)
(* only when every enabled stage has succeeded.                            *)
(***************************************************************************)
EnabledStages ==
    IF HasFlag(FlagRewrite)
    THEN <<"transcript", "summarize", "suggest", "rewrite">>
    ELSE <<"transcript">>

C9_FailureAbortsUnpersisted ==
    /\ SomeCallFailed =>
          /\ ~calls[Len(calls)].reply.ok
          /\ \A k \in 1..(Len(calls) - 1) : calls[k].reply.ok
          /\ files = <<>>
          /\ pc = "exited"
          /\ exitCode # 0
          /\ Len(stderr) = 1
          /\ HasPrefix(stderr[1], FailedToProcess)
    /\ files # <<>> =>
          /\ Services = EnabledStages
          /\ \A k \in 1..Len(calls) : calls[k].reply.ok

C9_Witness ==
    /\ Services = <<"transcript", "summarize", "suggest", "rewrite">>
    /\ ~calls[Len(calls)].reply.ok
    /\ files = <<>>
    /\ pc = "exited"
    /\ exitCode = 1

(***************************************************************************)
(* C10: no retry: each service is asked at most once in an invocation, and *)
(* a failed request (rate limit and quota included) is the last request:   *)
(* the invocation ends there.                                              *)
(***************************************************************************)
C10_NoRetry ==
    /\ \A i, j \in 1..Len(calls) : calls[i].svc = calls[j].svc => i = j
    /\ \A k \in 1..Len(calls) :
          ~calls[k].reply.ok => (k = Len(calls) /\ pc = "exited")

C10_Witness ==
    /\ Len(calls) >= 2
    /\ ~calls[Len(calls)].reply.ok
    /\ calls[Len(calls)].reply.error.status = 429
    /\ pc = "exited"
    /\ exitCode = 1

(***************************************************************************)
(* C11: the suggestion request is made only after the summarize request    *)
(* has resolved, and its prompt carries the summary that request answered  *)
(* with, not the transcript; once summarize fails, no suggestion and no    *)
(* rewrite request is made; the requests of an invocation occur in the     *)
(* order transcription, summarize, suggest, rewrite, each one made only    *)
(* when the one before it has returned successfully.                       *)
(***************************************************************************)
PipelineOrder == <<"transcript", "summarize", "suggest", "rewrite">>

C11_SuggestAfterSummary ==
    /\ Len(calls) <= Len(PipelineOrder)
    /\ Services = SubSeq(PipelineOrder, 1, Len(calls))
    /\ \A k \in 2..Len(calls) : calls[k - 1].reply.ok
    /\ \A k \in 1..Len(calls) :
          calls[k].svc = "suggest" =>
              /\ Answered("summarize")
              /\ calls[k].arg = AnswerOf("summarize")
              /\ calls[k].arg # ToJsString(audioText)
    /\ (\E k \in 1..Len(calls) : calls[k].svc = "summarize" /\ ~calls[k].reply.ok) =>
          /\ \A k \in 1..Len(calls) : calls[k].svc \notin {"suggest", "rewrite"}
          /\ pc = "exited"

C11_Witness ==
    /\ Services = PipelineOrder
    /\ Answered("summarize")
    /\ RequestOf("suggest") = AnswerOf("summarize")
    /\ RequestOf("summarize") # RequestOf("suggest")
    /\ Answered("rewrite")

(***************************************************************************)
(* C12: when summarize, suggest or rewrite is answered with HTTP 429, the  *)
(* message reported at the top level is exactly the rate-limit message,    *)
(* with no stage-failure prefix around it; and an error of the summarize   *)
(* request is not reported as a failure of the suggestion stage.           *)
(***************************************************************************)
LanguageModelCalls == {"summarize", "suggest", "rewrite"}

Reported(message) == stderr = << FailedToProcess \o message >>

C12_RateLimitNotWrapped ==
    \A k \in 1..Len(calls) :
        (calls[k].svc \in LanguageModelCalls /\ ~calls[k].reply.ok) =>
            /\ calls[k].reply.error.status = 429 => Reported(MsgRateLimit)
            /\ calls[k].svc = "summarize" =>
                   /\ Len(stderr) = 1
                   /\ ~HasPrefix(stderr[1], FailedToProcess \o PrefixSuggest)

====
